---- MODULE Spec2Model ----
(***************************************************************************)
(* Model of yeerugina-lib: the command data model of src/src/cmd.rs        *)
(* (Action, Effect, SmoothDuration, Command) and the connection manager of *)
(* src/src/lamp.rs (Lamp::connect, Lamp::connect_timeout, Lamp::send_cmd). *)
(*                                                                         *)
(* The program is single threaded.  The model is one caller that, from     *)
(* "idle", performs one operation at a time.  Pure functions are           *)
(* operators, applied by a Call action that records the operation, its     *)
(* arguments and its result.  The connect loop and the write loop are      *)
(* stepped one endpoint attempt / one write call at a time.                *)
(*                                                                         *)
(* Numbers: a u32 is a tuple of its four bytes, most significant first     *)
(* (the values above 2^31 do not fit TLC's integers); a Duration   *)
(* is the pair (secs, nanos) that std::time::Duration holds.               *)
(***************************************************************************)
EXTENDS Integers, Sequences, FiniteSets, TLC

VARIABLES
    pc,        \* where the caller is: "idle", "returned", "panicked", "connecting", "conn_done", "holding", "sending", "send_done"
    op,        \* the operation last invoked
    args,      \* its arguments
    ret,       \* its result (a tagged record)
    resolved,  \* connect: whether addr.to_socket_addrs() has been called
    addrs,     \* connect: the resolved endpoints, each with the outcome of an attempt on it
    idx,       \* connect: position of the address iterator (next endpoint to try)
    last_err,  \* connect: the local `last_err`
    attempts,  \* connect: endpoints attempted so far, in order
    pieces,    \* send_cmd: the string pieces the formatter hands to write_all
    piece,     \* send_cmd: index of the piece being written
    off,       \* send_cmd: bytes of that piece already accepted
    written,   \* send_cmd: bytes appended to the stream so far
    intr,      \* send_cmd: number of interrupted writes so far
    write_err, \* send_cmd: the error of the latest write call on the stream, if it failed
    reads,     \* number of reads performed on the stream by the current operation
    lamp       \* the Lamp the caller holds (its stream), if any

vars == <<pc, op, args, ret, resolved, addrs, idx, last_err, attempts,
          pieces, piece, off, written, intr, write_err, reads, lamp>>

----------------------------------------------------------------------------
(* Bounds of the model *)

\* Channel / byte samples are 0..MaxChan plus the fixed bytes of ByteSamples.
MaxChan == 1
\* Top bytes of the u32 samples are 0..MaxHigh plus 127, 128 and 255.
MaxHigh == 1
\* Durations sampled are whole-millisecond values 0..MaxMillis, each with
\* sub-millisecond parts, plus the fixed long durations.
MaxMillis == 31
\* Longest resolved endpoint list.
MaxAddrs == 3
\* Most bytes one write call on the stream accepts in the model.
MaxChunk == 40
\* Most interrupted writes in one send.
MaxIntr == 1

----------------------------------------------------------------------------
(* Machine integers *)

U8 == 0..255
U16 == 0..65535

Min(a, b) == IF a < b THEN a ELSE b

\* bitwise AND of two bytes, bit by bit
RECURSIVE AndBits(_, _, _)
AndBits(a, b, n) ==
    IF n = 0 THEN 0
    ELSE (IF a % 2 = 1 /\ b % 2 = 1 THEN 1 ELSE 0)
         + 2 * AndBits(a \div 2, b \div 2, n - 1)

AndU8(a, b) == AndBits(a, b, 8)

\* u32 & u32 on the byte representation
AndU32(x, y) == [i \in 1..4 |-> AndU8(x[i], y[i])]

\* x <= y for u32 values (most significant byte first)
RECURSIVE LeFrom(_, _, _)
LeFrom(x, y, i) ==
    IF i > 4 THEN TRUE
    ELSE IF x[i] < y[i] THEN TRUE
    ELSE IF x[i] > y[i] THEN FALSE
    ELSE LeFrom(x, y, i + 1)

LeU32(x, y) == LeFrom(x, y, 1)

\* the literals 0, 0xFFFFFF and 0x00FFFFFFu32
U32Zero == <<0, 0, 0, 0>>
U32x00FFFFFF == <<0, 255, 255, 255>>

\* u32::from_be_bytes
from_be_bytes(bytes) == <<bytes[1], bytes[2], bytes[3], bytes[4]>>

\* the integer value of a u32 whose top byte is below 128
U32Val(x) == ((x[1] * 256 + x[2]) * 256 + x[3]) * 256 + x[4]

----------------------------------------------------------------------------
(* std::time::Duration *)

Dur(s, n) == [secs |-> s, nanos |-> n]

\* 1000 milliseconds per second, 1000000 nanoseconds per millisecond
from_millis(ms) == Dur(ms \div 1000, (ms % 1000) * 1000000)
from_secs(s) == Dur(s, 0)
is_zero(d) == d.secs = 0 /\ d.nanos = 0
as_millis(d) == d.secs * 1000 + d.nanos \div 1000000
DurationDefault == Dur(0, 0)

----------------------------------------------------------------------------
(* cmd.rs: Action *)

None == [tag |-> "None"]
Some(x) == [tag |-> "Some", val |-> x]

SetCtAbx(ct) == [kind |-> "SetCtAbx", ct |-> ct]
SetRgb(rgb) == [kind |-> "SetRgb", rgb |-> rgb]

CT_MIN == 1700
CT_MAX == 6500

new_ct_exclusive(ct) ==
    IF ~(CT_MIN < ct /\ ct < CT_MAX) THEN None ELSE Some(SetCtAbx(ct))

new_ct(ct) ==
    IF ~(CT_MIN <= ct /\ ct <= CT_MAX) THEN None ELSE Some(SetCtAbx(ct))

new_rgb_from_int_nomask(rgb) ==
    Some(SetRgb(rgb))

new_rgb_from_int(rgb) ==
    IF ~(LeU32(U32Zero, rgb) /\ LeU32(rgb, U32x00FFFFFF))
    THEN Some(SetRgb(AndU32(rgb, U32x00FFFFFF)))
    ELSE Some(SetRgb(rgb))

new_rgb_from_parts_le(r, g, b) ==
    Some(SetRgb(from_be_bytes(<<0, b, g, r>>)))

new_rgb_from_parts(r, g, b) ==
    Some(SetRgb(from_be_bytes(<<0, r, g, b>>)))

----------------------------------------------------------------------------
(* cmd.rs: Effect and SmoothDuration *)

SMOOTH_MIN_MILLIS == 30

SmoothDuration(d) == [ty |-> "SmoothDuration", dur |-> d]

Sudden == [kind |-> "Sudden"]
Smooth(sd) == [kind |-> "Smooth", sd |-> sd]

SmoothDurationFrom(value) ==
    IF as_millis(value) < SMOOTH_MIN_MILLIS
    THEN SmoothDuration(from_millis(SMOOTH_MIN_MILLIS))
    ELSE SmoothDuration(value)

EffectFrom_millis(value) ==
    IF as_millis(value) = 0 THEN Sudden ELSE Smooth(SmoothDurationFrom(value))

EffectFrom(value) ==
    IF is_zero(value) THEN Sudden ELSE Smooth(SmoothDurationFrom(value))

\* #[derive(Default)] on SmoothDuration(Duration) and, with #[default], on Effect
SmoothDurationDefault == SmoothDuration(DurationDefault)
EffectDefault == Sudden

----------------------------------------------------------------------------
(* Text.  A string is a sequence of one-character strings. *)

Digits == <<"0", "1", "2", "3", "4", "5", "6", "7", "8", "9">>

\* an unsigned integer printed in decimal ({} on an integer)
RECURSIVE Dec(_)
Dec(n) == IF n < 10 THEN <<Digits[n + 1]>> ELSE Dec(n \div 10) \o <<Digits[(n % 10) + 1]>>

QUOTE == "\""
CRLF == <<"\r", "\n">>

StrSmooth == <<QUOTE, "s", "m", "o", "o", "t", "h", QUOTE>>
StrSudden == <<QUOTE, "s", "u", "d", "d", "e", "n", QUOTE>>
StrSetCtAbx == <<QUOTE, "s", "e", "t", "_", "c", "t", "_", "a", "b", "x", QUOTE>>
StrSetRgb == <<QUOTE, "s", "e", "t", "_", "r", "g", "b", QUOTE>>
StrIdKey == <<"{", QUOTE, "i", "d", QUOTE, ":">>
StrMethodKey == <<",", QUOTE, "m", "e", "t", "h", "o", "d", QUOTE, ":">>
StrParamsKey == <<",", QUOTE, "p", "a", "r", "a", "m", "s", QUOTE, ":", "[">>
StrClose == <<"]", "}">>

\* impl Display for SmoothDuration: write!(f, "\"smooth\",{}", self.0.as_millis())
SmoothDurationDisplay(sd) == StrSmooth \o <<",">> \o Dec(as_millis(sd.dur))

----------------------------------------------------------------------------
(* cmd.rs: Command *)

Command(action, eff, id) == [action |-> action, eff |-> eff, id |-> id]

Panic == [tag |-> "Panic", msg |-> "not yet implemented"]
Returned(s) == [tag |-> "Returned", val |-> s]

\* Command::to_request: its body is todo!(), which panics on every call
to_request(cmd) == Panic

\* The wire line of a command: {"id":<id>,"method":<m>,"params":[<v>,<e>]}
WireMethod(action) == IF action.kind = "SetCtAbx" THEN StrSetCtAbx ELSE StrSetRgb
WireValue(action) ==
    IF action.kind = "SetCtAbx" THEN Dec(action.ct) ELSE Dec(U32Val(action.rgb))
WireEffect(eff) ==
    IF eff.kind = "Sudden" THEN StrSudden ELSE SmoothDurationDisplay(eff.sd)
WireLine(cmd) ==
    StrIdKey \o Dec(cmd.id) \o StrMethodKey \o WireMethod(cmd.action)
    \o StrParamsKey \o WireValue(cmd.action) \o <<",">> \o WireEffect(cmd.eff)
    \o StrClose

\* Display for Command, which send_cmd formats with "{}": the wire line
CommandDisplay(cmd) == WireLine(cmd)

----------------------------------------------------------------------------
(* lamp.rs: results and errors *)

Ok(v) == [tag |-> "Ok", val |-> v]
\* an io::Error: its kind, and where it arose (src: "endpoint", with the endpoint's
\* index in `at`, or a place in the code, with `at` 0)
Err(kind, src, at) == [tag |-> "Err", kind |-> kind, src |-> src, at |-> at]

Unit == [tag |-> "Unit"]

\* The head of Lamp::connect_timeout: the zero-timeout check, then the
\* resolution addr.to_socket_addrs()? of the address argument.
connect_timeout_entry_late_check(timeout, resolution) ==
    IF resolution.tag = "Err"
    THEN [next |-> "return", ret |-> resolution, resolved |-> TRUE, addrs |-> <<>>]
    ELSE IF is_zero(timeout)
    THEN [next |-> "return", ret |-> Err("InvalidInput", "zero_timeout", 0),
          resolved |-> TRUE, addrs |-> <<>>]
    ELSE [next |-> "loop", ret |-> None, resolved |-> TRUE, addrs |-> resolution.val]

connect_timeout_entry(timeout, resolution) ==
    IF is_zero(timeout)
    THEN [next |-> "return", ret |-> Err("InvalidInput", "zero_timeout", 0),
          resolved |-> FALSE, addrs |-> <<>>]
    ELSE IF resolution.tag = "Err"
    THEN [next |-> "return", ret |-> resolution, resolved |-> TRUE, addrs |-> <<>>]
    ELSE [next |-> "loop", ret |-> None, resolved |-> TRUE, addrs |-> resolution.val]

\* Lamp::connect: TcpStream::connect(addr)?, which resolves and then runs the same loop
connect_entry(resolution) ==
    IF resolution.tag = "Err"
    THEN [next |-> "return", ret |-> resolution, resolved |-> TRUE, addrs |-> <<>>]
    ELSE [next |-> "loop", ret |-> None, resolved |-> TRUE, addrs |-> resolution.val]

\* The body of the loop: the match on the result of one connection attempt
\* on endpoint i, whose outcome is "accept" or an error kind.
on_attempt_no_fallback(outcome, i, lasterr) ==
    IF outcome = "accept"
    THEN [returns |-> TRUE, ret |-> Ok([stream |-> i]), last_err |-> lasterr]
    ELSE [returns |-> TRUE, ret |-> Err(outcome, "endpoint", i), last_err |-> lasterr]

on_attempt_keep_first(outcome, i, lasterr) ==
    IF outcome = "accept"
    THEN [returns |-> TRUE, ret |-> Ok([stream |-> i]), last_err |-> lasterr]
    ELSE [returns |-> FALSE, ret |-> None,
          last_err |-> IF lasterr.tag = "None" THEN Some(Err(outcome, "endpoint", i)) ELSE lasterr]

on_attempt(outcome, i, lasterr) ==
    IF outcome = "accept"
    THEN [returns |-> TRUE, ret |-> Ok([stream |-> i]), last_err |-> lasterr]
    ELSE [returns |-> FALSE, ret |-> None, last_err |-> Some(Err(outcome, "endpoint", i))]

\* After the loop: match last_err
after_loop(lasterr) ==
    IF lasterr.tag = "Some" THEN lasterr.val ELSE Err("InvalidInput", "no_addresses", 0)

\* One iteration of write_all, which write! runs for each piece: the match on
\* the result of one Lamp::write(buf) = self.stream.write(buf).
\*   Ok(0) -> Err(WriteZero); Ok(n) -> buf = &buf[n..];
\*   Err(Interrupted) -> retry; Err(e) -> return Err(e)
write_all_step(result) ==
    IF result.tag = "Ok"
    THEN IF result.val = 0
         THEN [returns |-> TRUE, ret |-> Err("WriteZero", "write_all", 0), advance |-> 0]
         ELSE [returns |-> FALSE, ret |-> None, advance |-> result.val]
    ELSE IF result.kind = "Interrupted"
         THEN [returns |-> FALSE, ret |-> None, advance |-> 0]
         ELSE [returns |-> TRUE, ret |-> result, advance |-> 0]

\* The pieces send_cmd's write!(self, "{}\r\n", cmd) hands to write_all
send_cmd_pieces(cmd) == <<CommandDisplay(cmd), CRLF>>

----------------------------------------------------------------------------
(* Inputs *)

ByteSamples == {255, 254, 222, 173, 166, 26, 58}
ChanSet == (0..MaxChan) \cup ByteSamples
HighSet == (0..MaxHigh) \cup {127, 128, 255}
RgbInputs == {<<h, r, g, b>> : h \in HighSet, r \in ChanSet, g \in ChanSet, b \in ChanSet}

SubMillis == {0, 1, 999999}
Durations ==
    {Dur(0, m * 1000000 + n) : m \in 0..MaxMillis, n \in SubMillis}
    \cup {from_secs(2), from_millis(2000), from_secs(3), from_millis(3000), Dur(1, 500)}

\* Commands built from valid Actions, Effects and ids
ActionInputs ==
    {new_ct(k).val : k \in {CT_MIN, 3200, CT_MAX}}
    \cup {new_rgb_from_int(x).val : x \in {U32Zero, <<0, 222, 173, 254>>, <<255, 255, 255, 255>>}}
EffectInputs ==
    {EffectFrom(d) : d \in {Dur(0, 0), from_millis(10), from_millis(30),
                            Dur(0, 30500000), from_millis(3000)}}
Commands == {Command(a, e, i) : a \in ActionInputs, e \in EffectInputs, i \in U8}
SendCommands ==
    {c \in Commands : /\ c.id \in {32, 255}
                      /\ c.action \in {SetCtAbx(3200), SetRgb(<<0, 222, 173, 254>>)}}

Outcomes == {"accept", "ConnectionRefused", "TimedOut"}
RECURSIVE SeqsUpTo(_, _)
SeqsUpTo(S, n) ==
    IF n = 0 THEN {<<>>}
    ELSE LET shorter == SeqsUpTo(S, n - 1)
         IN shorter \cup {Append(q, x) : q \in {t \in shorter : Len(t) = n - 1}, x \in S}
Resolutions == {Ok(l) : l \in SeqsUpTo(Outcomes, MaxAddrs)} \cup {Err("Other", "resolve", 0)}
Timeouts == {Dur(0, 0), Dur(0, 1), from_millis(500)}
WriteErrors == {"BrokenPipe", "Interrupted"}

----------------------------------------------------------------------------
(* The state machine *)

\* the caller holds no Lamp and is between operations
Idle == pc = "idle" /\ lamp = None
\* the caller holds a Lamp and is between operations
Holding == pc = "holding" /\ lamp # None

ConnIdle ==
    /\ resolved' = FALSE /\ addrs' = <<>> /\ idx' = 0
    /\ last_err' = None /\ attempts' = <<>>

SendIdle ==
    /\ pieces' = <<>> /\ piece' = 0 /\ off' = 0 /\ written' = <<>> /\ intr' = 0
    /\ write_err' = None

Init ==
    /\ pc = "idle" /\ op = "none" /\ args = Unit /\ ret = None
    /\ resolved = FALSE /\ addrs = <<>> /\ idx = 0
    /\ last_err = None /\ attempts = <<>>
    /\ pieces = <<>> /\ piece = 0 /\ off = 0 /\ written = <<>> /\ intr = 0
    /\ write_err = None
    /\ reads = 0 /\ lamp = None

\* A call of a pure function: no stream is touched
Pure(name, a, r) ==
    /\ pc' = "returned" /\ op' = name /\ args' = a /\ ret' = r
    /\ ConnIdle /\ SendIdle /\ reads' = 0 /\ lamp' = lamp

CallNewCt == Idle /\ \E ct \in U16 : Pure("new_ct", [ct |-> ct], new_ct(ct))

CallNewRgbFromInt ==
    Idle /\ \E rgb \in RgbInputs : Pure("new_rgb_from_int", [rgb |-> rgb], new_rgb_from_int(rgb))

CallNewRgbFromParts ==
    Idle /\ \E r \in ChanSet, g \in ChanSet, b \in ChanSet :
        Pure("new_rgb_from_parts", [r |-> r, g |-> g, b |-> b], new_rgb_from_parts(r, g, b))

CallEffectFrom == Idle /\ \E d \in Durations : Pure("Effect::from", [value |-> d], EffectFrom(d))

CallSmoothDurationFrom ==
    Idle /\ \E d \in Durations : Pure("SmoothDuration::from", [value |-> d], SmoothDurationFrom(d))

CallSmoothDurationDefault == Idle /\ Pure("SmoothDuration::default", Unit, SmoothDurationDefault)

CallEffectDefault == Idle /\ Pure("Effect::default", Unit, EffectDefault)

\* Effect::Smooth(sd): the public variant applied to a SmoothDuration the caller holds
MakeSmooth ==
    /\ pc = "returned" /\ lamp = None
    /\ op \in {"SmoothDuration::from", "SmoothDuration::default"}
    /\ Pure("Effect::Smooth", [sd |-> ret], Smooth(ret))

\* Command::to_request: a panic unwinds the caller
CallToRequest ==
    Idle /\ \E cmd \in Commands :
        /\ LET r == to_request(cmd)
           IN /\ pc' = IF r.tag = "Panic" THEN "panicked" ELSE "returned"
              /\ ret' = r
        /\ op' = "to_request" /\ args' = [cmd |-> cmd]
        /\ ConnIdle /\ SendIdle /\ reads' = 0 /\ lamp' = lamp

ConnectEnter(name, a, e) ==
    /\ op' = name /\ args' = a
    /\ resolved' = e.resolved /\ addrs' = e.addrs
    /\ idx' = 1 /\ last_err' = None /\ attempts' = <<>>
    /\ pc' = IF e.next = "loop" THEN "connecting" ELSE "conn_done"
    /\ ret' = e.ret
    /\ SendIdle /\ reads' = 0 /\ lamp' = None

ConnectCall ==
    Idle /\ \E res \in Resolutions :
        ConnectEnter("connect", [resolution |-> res], connect_entry(res))

ConnectTimeoutCall ==
    Idle /\ \E res \in Resolutions, t \in Timeouts :
        ConnectEnter("connect_timeout", [resolution |-> res, timeout |-> t],
                     connect_timeout_entry(t, res))

\* for sock_addr in ... : one connection attempt on the next endpoint
ConnectAttempt ==
    /\ pc = "connecting" /\ idx <= Len(addrs)
    /\ LET s == on_attempt(addrs[idx], idx, last_err)
       IN /\ attempts' = Append(attempts, idx)
          /\ idx' = idx + 1
          /\ last_err' = s.last_err
          /\ pc' = IF s.returns THEN "conn_done" ELSE "connecting"
          /\ ret' = s.ret
          /\ lamp' = IF s.returns /\ s.ret.tag = "Ok" THEN Some(s.ret.val) ELSE None
    /\ UNCHANGED <<op, args, resolved, addrs, pieces, piece, off, written, intr,
                   write_err, reads>>

\* the iterator is exhausted: match last_err
ConnectExhausted ==
    /\ pc = "connecting" /\ idx > Len(addrs)
    /\ pc' = "conn_done"
    /\ ret' = after_loop(last_err)
    /\ UNCHANGED <<op, args, resolved, addrs, idx, last_err, attempts,
                   pieces, piece, off, written, intr, write_err, reads, lamp>>

SendStart ==
    Holding /\ \E cmd \in SendCommands :
        /\ pc' = "sending" /\ op' = "send_cmd" /\ args' = [cmd |-> cmd] /\ ret' = None
        /\ pieces' = send_cmd_pieces(cmd) /\ piece' = 1 /\ off' = 0
        /\ written' = <<>> /\ intr' = 0 /\ write_err' = None /\ reads' = 0
        /\ ConnIdle /\ lamp' = lamp

\* what remains of the piece being written
Buf == SubSeq(pieces[piece], off + 1, Len(pieces[piece]))

\* write_all's reaction to the result of one write call on the stream
SendStep(result) ==
    LET s == write_all_step(result)
        n == s.advance
        pieceDone == off + n = Len(pieces[piece])
        allDone == pieceDone /\ piece = Len(pieces)
    IN /\ write_err' = IF result.tag = "Err" THEN result ELSE None
       /\ written' = written \o SubSeq(Buf, 1, n)
       /\ IF s.returns
          THEN /\ pc' = "send_done" /\ ret' = s.ret
               /\ UNCHANGED <<piece, off>>
          ELSE /\ piece' = IF pieceDone THEN piece + 1 ELSE piece
               /\ off' = IF pieceDone THEN 0 ELSE off + n
               /\ pc' = IF allDone THEN "send_done" ELSE "sending"
               /\ ret' = IF allDone THEN Ok(Unit) ELSE None
       /\ UNCHANGED <<op, args, resolved, addrs, idx, last_err, attempts, pieces, reads, lamp>>

\* the stream accepts n bytes of the buffer (possibly none)
SendWriteOk ==
    /\ pc = "sending"
    /\ \E n \in 0..Min(Len(Buf), MaxChunk) : SendStep(Ok(n))
    /\ intr' = intr

\* the stream's write fails
SendWriteErr ==
    /\ pc = "sending"
    /\ \E k \in WriteErrors :
        /\ k = "Interrupted" => intr < MaxIntr
        /\ SendStep(Err(k, "write", 0))
        /\ intr' = IF k = "Interrupted" THEN intr + 1 ELSE intr

\* impl Read for Lamp: the caller reads from the stream
LampRead ==
    /\ Holding
    /\ pc' = "returned" /\ op' = "read" /\ args' = Unit /\ ret' = Ok(Unit)
    /\ reads' = 1
    /\ ConnIdle /\ SendIdle /\ lamp' = lamp

\* the caller is done with the result of an operation
Return ==
    /\ pc \in {"returned", "conn_done", "send_done"}
    /\ pc' = IF lamp = None THEN "idle" ELSE "holding"
    /\ op' = "none" /\ args' = Unit /\ ret' = None
    /\ reads' = 0 /\ lamp' = lamp
    /\ ConnIdle /\ SendIdle

\* the Lamp goes out of scope
DropLamp ==
    /\ Holding
    /\ pc' = "idle" /\ op' = "none" /\ args' = Unit /\ ret' = None
    /\ reads' = 0 /\ lamp' = None
    /\ ConnIdle /\ SendIdle

Next ==
    \/ CallNewCt
    \/ CallNewRgbFromInt
    \/ CallNewRgbFromParts
    \/ CallEffectFrom
    \/ CallSmoothDurationFrom
    \/ CallSmoothDurationDefault
    \/ CallEffectDefault
    \/ MakeSmooth
    \/ CallToRequest
    \/ ConnectCall
    \/ ConnectTimeoutCall
    \/ ConnectAttempt
    \/ ConnectExhausted
    \/ SendStart
    \/ SendWriteOk
    \/ SendWriteErr
    \/ LampRead
    \/ Return
    \/ DropLamp

Spec == Init /\ [][Next]_vars

----------------------------------------------------------------------------
(* Properties *)

\* the u32 with integer value n, for n below 2^31
ToU32(n) == <<(n \div 16777216) % 256, (n \div 65536) % 256, (n \div 256) % 256, n % 256>>

\* d1 < d2 on durations, and the larger of two durations
DurLt(d1, d2) == d1.secs < d2.secs \/ (d1.secs = d2.secs /\ d1.nanos < d2.nanos)
DurMax(d1, d2) == IF DurLt(d1, d2) THEN d2 ELSE d1

ConnectOps == {"connect", "connect_timeout"}

\* the call is one the connect loop serves: not rejected for a zero timeout
NonZeroTimeout == op = "connect_timeout" => ~is_zero(args.timeout)

\* the endpoints of the resolved list that accept
Accepting(l) == {i \in 1..Len(l) : l[i] = "accept"}
FirstAccepting(l) == CHOOSE i \in Accepting(l) : \A j \in Accepting(l) : i <= j

\* C1: for every Command built from a valid Action, an Effect and an id in
\* 0..255, to_request returns (without panicking) the line
\* {"id":<id>,"method":<m>,"params":[<v>,<e>]} with no terminator.
C1_ToRequestReturnsWireLine ==
    op = "to_request" =>
        /\ pc = "returned"
        /\ ret.tag = "Returned"
        /\ ret.val = WireLine(args.cmd)

\* C2: new_ct returns Some(SetCtAbx(kelvin)) carrying exactly kelvin when
\* 1700 <= kelvin <= 6500 (bounds inclusive), and None for every other u16.
C2_NewCtRange ==
    op = "new_ct" =>
        IF 1700 <= args.ct /\ args.ct <= 6500
        THEN ret.tag = "Some" /\ ret.val.kind = "SetCtAbx" /\ ret.val.ct = args.ct
        ELSE ret.tag = "None"

C2_Witness ==
    op = "new_ct" /\ args.ct = 6500 /\ ret.tag = "Some"

\* C3: new_rgb_from_int never returns None, and the value stored is
\* rgb & 0xFFFFFF: the top byte cleared, the low three bytes kept.
C3_NewRgbFromIntMasks ==
    op = "new_rgb_from_int" =>
        /\ ret.tag = "Some"
        /\ ret.val.kind = "SetRgb"
        /\ ret.val.rgb = <<0, args.rgb[2], args.rgb[3], args.rgb[4]>>

C3_Witness ==
    /\ op = "new_rgb_from_int" /\ args.rgb = <<255, 222, 173, 254>>
    /\ ret.tag = "Some" /\ ret.val.rgb = <<0, 222, 173, 254>>

\* C4: new_rgb_from_parts(r, g, b) equals new_rgb_from_int(r*65536 + g*256 + b)
\* (red in bits 16-23, green in bits 8-15, blue in bits 0-7, top byte zero),
\* and triples that differ in any channel give unequal Actions.
C4_NewRgbFromPartsPacks ==
    op = "new_rgb_from_parts" =>
        /\ ret = new_rgb_from_int(ToU32(args.r * 65536 + args.g * 256 + args.b))
        /\ ret.val.rgb[1] = 0
        /\ \A r \in ChanSet, g \in ChanSet, b \in ChanSet :
               <<r, g, b>> # <<args.r, args.g, args.b>>
                   => new_rgb_from_parts(r, g, b) # ret

C4_Witness ==
    /\ op = "new_rgb_from_parts" /\ args = [r |-> 222, g |-> 173, b |-> 254]
    /\ ret = new_rgb_from_int(<<0, 222, 173, 254>>)

\* C5: Effect::from(d) is Sudden iff d is zero; for a non-zero d it is Smooth
\* carrying max(d, 30 ms), so every non-zero d below 30 ms converts to the
\* Effect of exactly 30 ms and a d of 30 ms or more is carried unchanged.
C5_EffectFromDuration ==
    op = "Effect::from" =>
        LET d == args.value
            floor == Dur(0, 30000000)
        IN /\ ret.kind = "Sudden" <=> is_zero(d)
           /\ ~is_zero(d) =>
                /\ ret.kind = "Smooth"
                /\ ret.sd.dur = DurMax(d, floor)
                /\ DurLt(d, floor) => ret = EffectFrom(from_millis(30))
                /\ ~DurLt(d, floor) => ret.sd.dur = d

C5_Witness ==
    /\ op = "Effect::from" /\ args.value = Dur(0, 1)
    /\ ret.kind = "Smooth" /\ ret.sd.dur = Dur(0, 30000000)

\* C6: every Effect::Smooth obtained through the public interface
\* (From<Duration>, the derived Defaults, the Smooth variant, copying)
\* carries a duration of at least 30 milliseconds.
C6_SmoothAtLeast30ms ==
    (op \in {"Effect::from", "Effect::default", "Effect::Smooth"} /\ ret.kind = "Smooth")
        => as_millis(ret.sd.dur) >= 30

\* C7: with a non-zero timeout and a resolved list in which an endpoint
\* accepts, connect_timeout (and connect) attempts the endpoints in list
\* order, each at most once, returns Ok with the stream of the first one that
\* accepts, and attempts none after it.
C7_FirstAcceptingWins ==
    (op \in ConnectOps /\ NonZeroTimeout) =>
        /\ \A k \in 1..Len(attempts) :
               /\ attempts[k] = k
               /\ k < Len(attempts) => addrs[k] # "accept"
        /\ (pc = "conn_done" /\ args.resolution.tag = "Ok"
            /\ Accepting(args.resolution.val) # {}) =>
               LET f == FirstAccepting(args.resolution.val)
               IN /\ ret = Ok([stream |-> f])
                  /\ lamp = Some([stream |-> f])
                  /\ attempts = [k \in 1..f |-> k]

C7_Witness ==
    /\ pc = "conn_done" /\ op = "connect_timeout"
    /\ addrs = <<"ConnectionRefused", "accept", "accept">>
    /\ ret = Ok([stream |-> 2]) /\ attempts = <<1, 2>>

\* C8: connect_timeout with a non-zero timeout returns Err only when no
\* attempt succeeded; when the list is non-empty and every attempt fails the
\* error is that of the last-attempted endpoint; when resolution yields no
\* endpoint the error has kind InvalidInput.
C8_LastErrorReturned ==
    (pc = "conn_done" /\ op = "connect_timeout" /\ ~is_zero(args.timeout)) =>
        /\ ret.tag = "Err" => \A k \in 1..Len(attempts) : addrs[attempts[k]] # "accept"
        /\ (args.resolution.tag = "Ok" /\ Accepting(args.resolution.val) = {}) =>
               LET l == args.resolution.val
                   n == Len(l)
               IN IF n = 0
                  THEN ret.tag = "Err" /\ ret.kind = "InvalidInput" /\ attempts = <<>>
                  ELSE /\ ret = Err(l[n], "endpoint", n)
                       /\ attempts = [k \in 1..n |-> k]

C8_Witness ==
    /\ pc = "conn_done" /\ op = "connect_timeout"
    /\ addrs = <<"ConnectionRefused", "TimedOut">>
    /\ ret = Err("TimedOut", "endpoint", 2)

\* C9: connect_timeout with a zero timeout returns an InvalidInput error for
\* every address list, before resolving the addresses or attempting any
\* endpoint.
C9_ZeroTimeoutRejected ==
    (op = "connect_timeout" /\ is_zero(args.timeout)) =>
        /\ pc = "conn_done"
        /\ ret.tag = "Err" /\ ret.kind = "InvalidInput"
        /\ ~resolved
        /\ attempts = <<>>
        /\ lamp = None

C9_Witness ==
    /\ op = "connect_timeout" /\ is_zero(args.timeout)
    /\ args.resolution = Ok(<<"accept">>)
    /\ pc = "conn_done" /\ ret.tag = "Err"

\* C10: when send_cmd returns Ok the bytes appended to the stream are exactly
\* Command::to_request of the command followed by one "\r\n", also when the
\* stream takes the line in several partial writes; send_cmd reads nothing;
\* and when an underlying write fails, send_cmd returns that error.
C10_SendWritesToRequestLine ==
    (op = "send_cmd" /\ pc = "send_done") =>
        /\ reads = 0
        /\ ret.tag = "Ok" =>
               LET r == to_request(args.cmd)
               IN /\ r.tag = "Returned"
                  /\ written = r.val \o CRLF
        /\ write_err.tag = "Err" => ret = write_err

====
